---- MODULE Spec2Model ----
(***************************************************************************)
(* GPU Benchmark harness of the repository:                                *)
(*   - AutomatedBenchmark (benchmark/automatedTest.ts): run(),             *)
(*     runSingleTest() and its animate() frame callback;                   *)
(*   - WebGLGpuTimer (metrics/gpuTimerGPU.ts, lines 4-86): the pooled      *)
(*     Polling-Query timer;                                                *)
(*   - WebGPUGpuTimer (metrics/gpuTimerGPU.ts, lines 88-120 and 137-214):  *)
(*     the stub and the Timestamp-Resolve timer.                           *)
(* The three components share no state in the source (the orchestrator     *)
(* never constructs a timer), so each has its own specification: Spec,     *)
(* SpecGL and SpecGPU.                                                     *)
(***************************************************************************)
EXTENDS Integers, Sequences, FiniteSets, TLC

\* ------------------------------------------------------------------ bounds
MaxRuns == 2        \* run() calls on one AutomatedBenchmark instance
MaxDuration == 2    \* config.duration ranges over 1..MaxDuration seconds
MaxWarmup == 1      \* config.warmupTime ranges over 0..MaxWarmup seconds (and 0.5)
DtFast == 100       \* ms between two frame callbacks, fast display
DtSlow == 200       \* ms between two frame callbacks, slow display
MaxHandles == 2     \* gl.createQuery() calls on one WebGLGpuTimer
MaxGLClock == 3     \* ms of clock the Polling-Query timer is followed for
RawShort == 500000  \* a TIME_ELAPSED result in ns
RawLong == 3000000  \* another TIME_ELAPSED result in ns
MaxWindows == 2     \* begin() calls of the Timestamp-Resolve timer that allocate
MaxPollCalls == 3   \* poll() calls on one WebGPUGpuTimer
DtDisplay == 17     \* ms between two frame callbacks on a 60 Hz display
MaxUiFrames == 61   \* frames of the interactive session that are followed
MaxUiChanges == 3   \* selections made in the session's Renderer and Scene boxes
MaxMetrics == 3     \* Metric lists of every content up to this length
LongLen == 21       \* a Metric list long enough for the 95th percentile
MaxLength == 200    \* list lengths the percentile indices are computed for
Precision == 7      \* significant bits the number arithmetic keeps

\* ------------------------------------------------------- program constants
SampleStride == 10      \* frameCount % 10 === 0
MsPerSecond == 1000     \* this.config.warmupTime * 1000, duration * 1000
InterCellDelay == 1000  \* await this.delay(1000)
SettleDelayMs == 2      \* performance.now() - startTime < 2
NsPerMs == 1000000      \* timeElapsed / 1000000
ObjectsPerWindow == 3   \* createQuerySet + 2 x createBuffer in begin()
UiSampleStride == 60    \* ui.ts: frameCount % 60 === 0

VARIABLES
  \* ---- AutomatedBenchmark
  config,         \* this.config
  dts,            \* environment: the frame intervals the display can produce
  timingCap,      \* environment: the device has working GPU timing
  pc,             \* where run() is suspended
  runs,           \* number of run() calls made so far
  now,            \* performance.now()
  results,        \* this.results
  handed,         \* number of BenchmarkResults returned; the results field of
                  \* each of them is the array this.results itself
  calls,          \* history: rendererFactory calls of the current run
  made,           \* number of renderer objects created so far
  live,           \* ids of renderers created and not yet disposed
  renderer,       \* run()'s local `renderer`
  bi, si, ri,     \* positions of the three for-loops (1-based)
  currentTest, totalTests,
  progress,       \* history: the fractions passed to onProgress
  cell,           \* runSingleTest's closure: metrics, frameCount, lastTime, ...
  rafPending,     \* a requestAnimationFrame(animate) callback is queued
  sceneLive,      \* history: the cells (numbered as their TestResult will be
                  \* in this.results) whose sceneFactory-built scene has GPU
                  \* resources that nothing has disposed
  \* ---- WebGLGpuTimer (pooled Polling-Query timer)
  glExt,          \* this.ext is set (EXT_disjoint_timer_query_webgl2 present)
  queries,        \* this.queries
  queryPool,      \* this.queryPool
  pendingQueries, \* this.pendingQueries, in Map insertion order: [q, t]
  glNow,          \* performance.now() as the timer's caller sees it
  glCreated,      \* number of gl.createQuery() calls so far
  glDeleted,      \* history: the handles passed to gl.deleteQuery, in call order
  glOp,           \* history: the last timer method called
  glPoll,         \* history: what the last poll() saw and returned
  \* ---- WebGPUGpuTimer (stub, and Timestamp-Resolve timer)
  gpuClass,       \* which of the two WebGPUGpuTimer classes the object is
  gpuFeature,     \* device.features.has('timestamp-query')
  querySet,       \* this.querySet      (0 is null)
  resolveBuffer,  \* this.resolveBuffer (0 is null)
  resultBuffer,   \* this.resultBuffer  (0 is null)
  isPolling,      \* this.isPolling
  gpuAlloc,       \* number of GPU objects created so far (ids 1..gpuAlloc)
  gpuDestroyed,   \* history: the objects destroy() was called on, in call order
  gpuMapping,     \* result buffers with a map request pending
  gpuPolls,       \* poll() calls suspended on mapAsync
  gpuRets,        \* history: the values poll() calls have yielded, in order
  gpuThrew,       \* history: a call on the timer threw
  gpuOp,          \* history: the last step of the timer
  gpuWindow,      \* history: "none", or the measurement window is "begun",
                  \* "ended", or "dropped" (its poll() yielded null)
  \* ---- calculateSummary and exportCsv applied to a Metric list
  fnMetrics,      \* the Metric list passed in
  fnDone,         \* which of the two functions have been applied to it
  fnSummary,      \* what calculateSummary returned
  fnCsv,          \* the csvContent exportCsv built: lines of cells
  fnAlerted,      \* exportCsv showed its "No data" alert
  \* ---- createGpuTimer applied to a renderer
  facRenderer,    \* the renderer passed in: its backend-kind flags
  facTimer,       \* what createGpuTimer returned ("unset" before the call)
  facThrew,       \* history: a call on the returned value threw
  \* ---- the interactive session (ui.ts and main.ts)
  currentRenderer,   \* ui.ts: the api label of the Metrics
  currentScene,      \* ui.ts: the scene label of the Metrics
  uiMetrics,         \* ui.ts: metrics
  uiFrameCount,      \* ui.ts: frameCount
  active,            \* main.ts: the backend of the renderer that render() uses
  currentSceneType,  \* main.ts: the scene built into the scene render() shows
  webgpuMade,        \* main.ts: renderers.webgpu is set
  togglesPending,    \* handleToggleRenderer calls suspended on initWebGPU()
  gpuSupport,        \* environment: navigator.gpu is present
  uiRendered,        \* history: for each Metric of uiMetrics, the backend that
                     \* rendered and the scene shown when it was sampled
  uiFrames,          \* history: frames of the session so far
  uiChanges          \* history: selections made so far

benchVars == <<config, dts, timingCap, pc, runs, now, results, handed, calls, made,
               live, renderer, bi, si, ri, currentTest, totalTests, progress,
               cell, rafPending, sceneLive>>

glVars == <<glExt, queries, queryPool, pendingQueries, glNow, glCreated,
            glDeleted, glOp, glPoll>>

gpuVars == <<gpuClass, gpuFeature, querySet, resolveBuffer, resultBuffer,
             isPolling, gpuAlloc, gpuDestroyed, gpuMapping, gpuPolls, gpuRets,
             gpuThrew, gpuOp, gpuWindow>>

timerVars == <<glVars, gpuVars>>

facVars == <<facRenderer, facTimer, facThrew>>

fnVars == <<fnMetrics, fnDone, fnSummary, fnCsv, fnAlerted, facVars>>

uiVars == <<currentRenderer, currentScene, uiMetrics, uiFrameCount, active,
            currentSceneType, webgpuMade, togglesPending, gpuSupport,
            uiRendered, uiFrames, uiChanges>>

vars == <<benchVars, glVars, gpuVars, fnVars, uiVars>>

\* ------------------------------------------------------------------ values
NullMs == <<>>                      \* gpu_ms: null
NoRenderer == [id |-> 0, type |-> "null", isNull |-> TRUE]
R1080 == <<1920, 1080>>
R720 == <<1280, 720>>

IdleCell == [frameCount |-> 0, lastTime |-> 0, testStartTime |-> 0,
             startTime |-> 0, metrics |-> <<>>]

\* The benchmark matrices explored: the 2x2x1 matrix of the spec's example in
\* both backend orders, a matrix with two resolutions, one without scenes,
\* and a single cell.
MatrixShapes ==
  { [renderers |-> <<"webgl", "webgpu">>, scenes |-> <<"storm", "particles">>,
     resolutions |-> <<R1080>>],
    [renderers |-> <<"webgpu", "webgl">>, scenes |-> <<"storm">>,
     resolutions |-> <<R1080, R720>>],
    [renderers |-> <<"webgl", "webgpu">>, scenes |-> <<>>,
     resolutions |-> <<R1080>>] }

SingleShape ==
  [renderers |-> <<"webgl">>, scenes |-> <<"gbuffer">>, resolutions |-> <<R1080>>]

WithTimes(shape, d, w) ==
  [renderers |-> shape.renderers, scenes |-> shape.scenes,
   duration |-> d, warmupTime |-> w, resolutions |-> shape.resolutions]

\* ------------------------------------------------------------- constructor
\* automatedTest.ts 38: the fields of a freshly constructed AutomatedBenchmark.
BenchFresh ==
  /\ pc = "idle"
  /\ runs = 0
  /\ now = 1000
  /\ results = <<>>
  /\ handed = 0
  /\ calls = <<>>
  /\ made = 0
  /\ live = {}
  /\ renderer = NoRenderer
  /\ bi = 1 /\ si = 1 /\ ri = 1
  /\ currentTest = 0 /\ totalTests = 0
  /\ progress = <<>>
  /\ cell = IdleCell
  /\ rafPending = FALSE
  /\ sceneLive = {}

\* automatedTest.ts 38-46: results = [], config stored.  A multi-cell matrix is
\* explored on a display with a steady frame interval, the single cell on a
\* display whose interval varies from frame to frame, and the single cell with
\* duration 2 s and warmupTime 0.5 s on a steady 60 Hz display.  warmupTime is
\* a number of seconds <<numerator, denominator>>.
BenchInit ==
  /\ \/ /\ \E s \in MatrixShapes, d \in 1..MaxDuration, w \in 0..MaxWarmup :
             config = WithTimes(s, d, <<w, 1>>)
        /\ dts \in {{DtFast}, {DtSlow}}
     \/ /\ \E d \in 1..MaxDuration, w \in 0..MaxWarmup :
             config = WithTimes(SingleShape, d, <<w, 1>>)
        /\ dts = {DtFast, DtSlow}
     \/ /\ config = WithTimes(SingleShape, 2, <<1, 2>>)
        /\ dts \in {{DtDisplay}, {DtDisplay - 1}}
  /\ timingCap \in BOOLEAN
  /\ BenchFresh

\* ------------------------------------------------------------ JS numbers
\* A JavaScript number is the tuple <<numerator, denominator>> in lowest terms
\* with a positive denominator; a zero denominator gives the values that are
\* not finite.  A clock reading or a frame count is a whole number, which a
\* double holds exactly, and stays an integer.  The results of / and + are
\* rounded to nearest, ties to even, as IEEE-754 does, keeping Precision
\* significant bits where a double keeps 53.
NaN == <<0, 0>>
PosInfinity == <<1, 0>>
NegInfinity == <<-1, 0>>
Undefined == <<0, 0, 0>>            \* the value of an array element out of range

RECURSIVE Gcd(_, _)
Gcd(a, b) == IF b = 0 THEN a ELSE Gcd(b, a % b)

Reduced(f) == LET g == Gcd(f[1], f[2]) IN <<f[1] \div g, f[2] \div g>>

Abs(x) == IF x < 0 THEN -x ELSE x

RECURSIVE Pow2(_)
Pow2(k) == IF k = 0 THEN 1 ELSE 2 * Pow2(k - 1)

IsFinite(x) == Len(x) = 2 /\ x[2] # 0

\* a / b for a >= 0, b > 0, rounded to the nearest integer, ties to even.
RoundHalfEven(a, b) ==
  LET q == a \div b
      r == a % b
  IN IF 2 * r > b \/ (2 * r = b /\ q % 2 = 1) THEN q + 1 ELSE q

\* The least k >= from with a < d * 2^Precision * 2^k.
RECURSIVE ScaleDown(_, _, _)
ScaleDown(a, d, from) ==
  IF a < d * Pow2(Precision) * Pow2(from) THEN from ELSE ScaleDown(a, d, from + 1)

\* The least k >= from with a * 2^k >= d * 2^(Precision - 1).
RECURSIVE ScaleUp(_, _, _)
ScaleUp(a, d, from) ==
  IF a * Pow2(from) >= d * Pow2(Precision - 1) THEN from ELSE ScaleUp(a, d, from + 1)

\* The number nearest to n / d (d > 0).
RoundToNumber(n, d) ==
  IF n = 0 THEN <<0, 1>>
  ELSE LET a == Abs(n)
           s == IF n < 0 THEN -1 ELSE 1
       IN IF a >= d * Pow2(Precision)
          THEN LET k == ScaleDown(a, d, 1)
               IN <<s * RoundHalfEven(a, d * Pow2(k)) * Pow2(k), 1>>
          ELSE LET k == ScaleUp(a, d, 0)
               IN Reduced(<<s * RoundHalfEven(a * Pow2(k), d), Pow2(k)>>)

Sign(x) == IF x[1] < 0 THEN -1 ELSE IF x[1] > 0 THEN 1 ELSE 0

\* x + y
NumAdd(x, y) ==
  IF IsFinite(x) /\ IsFinite(y)
  THEN RoundToNumber(x[1] * y[2] + y[1] * x[2], x[2] * y[2])
  ELSE IF x = NaN \/ y = NaN \/ (~IsFinite(x) /\ ~IsFinite(y) /\ x # y) THEN NaN
  ELSE IF IsFinite(x) THEN y ELSE x

\* x / y
NumDiv(x, y) ==
  IF x = NaN \/ y = NaN \/ (~IsFinite(x) /\ ~IsFinite(y)) \/ (x[1] = 0 /\ y[1] = 0)
  THEN NaN
  ELSE IF ~IsFinite(x) THEN (IF Sign(y) < 0 THEN <<-x[1], 0>> ELSE x)
  ELSE IF ~IsFinite(y) THEN <<0, 1>>
  ELSE IF y[1] = 0 THEN <<Sign(x), 0>>
  ELSE RoundToNumber(Sign(y) * x[1] * y[2], x[2] * Abs(y[1]))

\* x < y, for numbers that are not NaN
NumLess(x, y) ==
  IF IsFinite(x) /\ IsFinite(y) THEN x[1] * y[2] < y[1] * x[2]
  ELSE IF IsFinite(x) THEN y = PosInfinity
  ELSE IF IsFinite(y) THEN x = NegInfinity
  ELSE x = NegInfinity /\ y = PosInfinity

Whole(i) == <<i, 1>>

\* --------------------------------------------------------- runSingleTest
\* automatedTest.ts 146-157: the Metric literal.  vram_mb, draw_calls and
\* triangles are environment counters no operation reads back and are left out.
Metric(frame, t, deltaTime) ==
  [frame |-> frame, timestamp |-> t, api |-> config.renderers[bi],
   scene |-> config.scenes[si], fps |-> NumDiv(Whole(MsPerSecond), Whole(deltaTime)),
   cpu_ms |-> deltaTime, gpu_ms |-> NullMs]

\* automatedTest.ts 140: this.config.warmupTime * 1000, a whole number of ms
\* for each warmupTime explored, which the double product gives exactly.
WarmupMs == (config.warmupTime[1] * MsPerSecond) \div config.warmupTime[2]

\* A sample on every fifth frame.
IsSampleFrameEveryFifth(frameCount) == frameCount % 5 = 0

\* automatedTest.ts 145: frameCount % 10 === 0
IsSampleFrame(frameCount) == frameCount % SampleStride = 0

\* animate with the warmup test dropped from the sampling branch.
animateSamplesWarmup(c, currentTime) ==
  LET deltaTime == currentTime - c.lastTime
      warmup == c.testStartTime = 0
      tst == IF warmup /\ currentTime - c.startTime > WarmupMs
             THEN currentTime ELSE c.testStartTime
      sampled == IF IsSampleFrame(c.frameCount)
                 THEN Append(c.metrics, Metric(c.frameCount, currentTime, deltaTime))
                 ELSE c.metrics
      complete == ~warmup /\ currentTime - c.testStartTime > config.duration * MsPerSecond
  IN IF complete
     THEN [cell |-> [c EXCEPT !.metrics = sampled], resolved |-> TRUE, again |-> FALSE]
     ELSE [cell |-> [c EXCEPT !.metrics = sampled, !.testStartTime = tst,
                              !.frameCount = c.frameCount + 1,
                              !.lastTime = currentTime],
           resolved |-> FALSE, again |-> TRUE]

\* automatedTest.ts 134-180: one call of the frame callback at clock value
\* currentTime.  Yields the closure's new state, whether the cell's promise was
\* resolved and whether another callback was requested.
animate(c, currentTime) ==
  LET deltaTime == currentTime - c.lastTime
      warmup == c.testStartTime = 0
      tst == IF warmup /\ currentTime - c.startTime > WarmupMs
             THEN currentTime ELSE c.testStartTime
      sampled == IF ~warmup /\ IsSampleFrame(c.frameCount)
                 THEN Append(c.metrics, Metric(c.frameCount, currentTime, deltaTime))
                 ELSE c.metrics
      complete == ~warmup /\ currentTime - c.testStartTime > config.duration * MsPerSecond
  IN IF complete
     THEN [cell |-> [c EXCEPT !.metrics = sampled], resolved |-> TRUE, again |-> FALSE]
     ELSE [cell |-> [c EXCEPT !.metrics = sampled, !.testStartTime = tst,
                              !.frameCount = c.frameCount + 1,
                              !.lastTime = currentTime],
           resolved |-> FALSE, again |-> TRUE]

\* ------------------------------------------------------ calculateSummary
\* Array.prototype.sort with the comparator (a, b) => a - b: place k holds the
\* value that has fewer than k smaller elements and at least k elements not
\* greater than it.
SortAscending(seq) ==
  [k \in 1..Len(seq) |->
     CHOOSE v \in {seq[i] : i \in 1..Len(seq)} :
       /\ Cardinality({j \in 1..Len(seq) : NumLess(seq[j], v)}) < k
       /\ k <= Cardinality({j \in 1..Len(seq) : ~NumLess(v, seq[j])})]

\* samples.reduce((a, b) => a + b, 0) over the first n samples: the additions
\* are made from the left, each one rounded.
RECURSIVE SumFirst(_, _)
SumFirst(samples, n) ==
  IF n = 0 THEN <<0, 1>> ELSE NumAdd(SumFirst(samples, n - 1), samples[n])

\* automatedTest.ts 216, 219, 221: reduce(...) / length.
Mean(samples) ==
  NumDiv(SumFirst(samples, Len(samples)), Whole(Len(samples)))

\* Math.min with 0 for no argument.
MathMinZeroIfEmpty(samples) ==
  IF Len(samples) = 0 THEN <<0, 1>>
  ELSE CHOOSE v \in {samples[i] : i \in 1..Len(samples)} :
         \A j \in 1..Len(samples) : ~NumLess(samples[j], v)

\* Math.min(...samples): Infinity for no argument.
MathMin(samples) ==
  IF Len(samples) = 0 THEN PosInfinity
  ELSE CHOOSE v \in {samples[i] : i \in 1..Len(samples)} :
         \A j \in 1..Len(samples) : ~NumLess(samples[j], v)

\* Math.max(...samples): -Infinity for no argument.
MathMax(samples) ==
  IF Len(samples) = 0 THEN NegInfinity
  ELSE CHOOSE v \in {samples[i] : i \in 1..Len(samples)} :
         \A j \in 1..Len(samples) : ~NumLess(v, samples[j])

\* The index n * hundredths / 100 rounded up instead of down.
PercentileIndexCeil(n, hundredths) == (n * hundredths + 99) \div 100

\* automatedTest.ts 223-224: Math.floor(fpsSamples.length * 0.95) and
\* Math.floor(fpsSamples.length * 0.99).  For every length up to 2000000 the
\* double product floors to the whole part of n * hundredths / 100.
PercentileIndex(n, hundredths) == (n * hundredths) \div 100

\* samples[index] of a JavaScript array (0-based; undefined out of range).
ElementAt(samples, index) ==
  IF index >= 0 /\ index < Len(samples) THEN samples[index + 1] ELSE Undefined

\* avgGpuMs with a null gpu_ms counted as 0.
AvgGpuMsNullAsZero(metrics) ==
  Mean([i \in 1..Len(metrics) |->
          IF metrics[i].gpu_ms = NullMs THEN <<0, 1>> ELSE metrics[i].gpu_ms])

\* automatedTest.ts 213, 220-222: the mean of the non-null gpu_ms, or null.
AvgGpuMs(metrics) ==
  LET gpuSamples == SelectSeq([i \in 1..Len(metrics) |-> metrics[i].gpu_ms],
                              LAMBDA v : v # NullMs)
  IN IF Len(gpuSamples) > 0 THEN Mean(gpuSamples) ELSE NullMs

\* automatedTest.ts 210-226
calculateSummary(metrics) ==
  LET fpsSamples == SortAscending([i \in 1..Len(metrics) |-> metrics[i].fps])
      cpuSamples == [i \in 1..Len(metrics) |-> Whole(metrics[i].cpu_ms)]
  IN [avgFps |-> Mean(fpsSamples),
      minFps |-> MathMin(fpsSamples),
      maxFps |-> MathMax(fpsSamples),
      avgCpuMs |-> Mean(cpuSamples),
      avgGpuMs |-> AvgGpuMs(metrics),
      percentile95Fps |-> ElementAt(fpsSamples, PercentileIndex(Len(fpsSamples), 95)),
      percentile99Fps |-> ElementAt(fpsSamples, PercentileIndex(Len(fpsSamples), 99))]

\* TestResult with the metrics in the order of a descending sort.
TestResultReversed(metrics) ==
  [renderer |-> config.renderers[bi], scene |-> config.scenes[si],
   resolution |-> config.resolutions[ri],
   metrics |-> [i \in 1..Len(metrics) |-> metrics[Len(metrics) + 1 - i]],
   summary |-> calculateSummary(metrics)]

\* automatedTest.ts 186-207: the TestResult of the cell that just ended with
\* the given metrics.
TestResult(metrics) ==
  [renderer |-> config.renderers[bi], scene |-> config.scenes[si],
   resolution |-> config.resolutions[ri], metrics |-> metrics,
   summary |-> calculateSummary(metrics)]

\* -------------------------------------------------------------------- run
HasCells == Len(config.scenes) > 0 /\ Len(config.resolutions) > 0

\* automatedTest.ts 48-57: run() is entered; this.results is NOT reset.  Repeated
\* runs are explored on the steady displays only.
Run ==
  /\ pc \in {"idle", "returned", "rejected"}
  /\ runs < MaxRuns
  /\ runs = 0 \/ Cardinality(dts) = 1
  /\ runs' = runs + 1
  /\ totalTests' = Len(config.renderers) * Len(config.scenes) * Len(config.resolutions)
  /\ currentTest' = 0
  /\ bi' = 1
  /\ calls' = <<>>
  /\ progress' = <<>>
  /\ pc' = "loop"
  /\ UNCHANGED <<uiVars, timerVars, fnVars, sceneLive, handed, config, dts, timingCap, now, results, made, live, renderer,
                 si, ri, cell, rafPending>>

\* automatedTest.ts 59-63: the next iteration of the backend loop calls
\* rendererFactory and suspends on it.
CallFactory ==
  /\ pc = "loop"
  /\ bi <= Len(config.renderers)
  /\ calls' = Append(calls, [type |-> config.renderers[bi], outcome |-> "pending", id |-> 0])
  /\ pc' = "awaitFactory"
  /\ UNCHANGED <<uiVars, timerVars, fnVars, sceneLive, handed, config, dts, timingCap, runs, now, results, made, live, renderer,
                 bi, si, ri, currentTest, totalTests, progress, cell, rafPending>>

Settle(outcome, id) == [calls EXCEPT ![Len(calls)].outcome = outcome, ![Len(calls)].id = id]

\* automatedTest.ts 63, 69-70: rendererFactory resolves with a renderer object
\* (one meeting the renderer contract: setSize, render, dispose).
FactoryResolves ==
  /\ pc = "awaitFactory"
  /\ made' = made + 1
  /\ renderer' = [id |-> made + 1, type |-> config.renderers[bi], isNull |-> FALSE]
  /\ live' = live \cup {made + 1}
  /\ calls' = Settle("ok", made + 1)
  /\ si' = 1 /\ ri' = 1
  /\ pc' = IF HasCells THEN "cells" ELSE "dispose"
  /\ UNCHANGED <<uiVars, timerVars, fnVars, sceneLive, handed, config, dts, timingCap, runs, now, results, bi, currentTest,
                 totalTests, progress, cell, rafPending>>

\* automatedTest.ts 63: rendererFactory resolves with null, as main.ts 66-95
\* (initWebGPU) does when WebGPU is absent; no exception, so no `continue`.
FactoryResolvesNull ==
  /\ pc = "awaitFactory"
  /\ renderer' = NoRenderer
  /\ calls' = Settle("null", 0)
  /\ si' = 1 /\ ri' = 1
  /\ pc' = IF HasCells THEN "cells" ELSE "dispose"
  /\ UNCHANGED <<uiVars, timerVars, fnVars, sceneLive, handed, config, dts, timingCap, runs, now, results, made, live, bi,
                 currentTest, totalTests, progress, cell, rafPending>>

\* FactoryRejects recording one empty placeholder result per cell of the backend.
FactoryRejectsPlaceholders ==
  /\ pc = "awaitFactory"
  /\ renderer' = NoRenderer
  /\ calls' = [calls EXCEPT ![Len(calls)].outcome = "reject"]
  /\ results' = results \o
        [k \in 1..(Len(config.scenes) * Len(config.resolutions)) |->
           [renderer |-> config.renderers[bi],
            scene |-> config.scenes[((k - 1) \div Len(config.resolutions)) + 1],
            resolution |-> config.resolutions[((k - 1) % Len(config.resolutions)) + 1],
            metrics |-> <<>>, summary |-> calculateSummary(<<>>)]]
  /\ bi' = bi + 1
  /\ pc' = "loop"
  /\ UNCHANGED <<uiVars, timerVars, fnVars, sceneLive, handed, config, dts, timingCap, runs, now, made, live, si, ri,
                 currentTest, totalTests, progress, cell, rafPending>>

\* automatedTest.ts 64-67: rendererFactory rejects; log and `continue`.
FactoryRejects ==
  /\ pc = "awaitFactory"
  /\ renderer' = NoRenderer
  /\ calls' = Settle("reject", 0)
  /\ bi' = bi + 1
  /\ pc' = "loop"
  /\ UNCHANGED <<uiVars, timerVars, fnVars, sceneLive, handed, config, dts, timingCap, runs, now, results, made, live, si, ri,
                 currentTest, totalTests, progress, cell, rafPending>>

\* automatedTest.ts 115, 190-199: the cleanup traverses the local `scene`, a
\* new THREE.Scene() that nothing was added to: sceneFactory is not given it
\* (124) and returns nothing.  It reaches no scene that sceneFactory built.
TraversedScenes == {}

\* automatedTest.ts 71-75, 112-183: progress is reported, then runSingleTest
\* sets the size, has sceneFactory build the cell's scene and makes the first
\* animate() call itself.
StartCell ==
  /\ pc = "cells"
  /\ ~renderer.isNull
  /\ currentTest' = currentTest + 1
  /\ progress' = Append(progress, <<currentTest + 1, totalTests>>)
  /\ LET a == animate([frameCount |-> 0, lastTime |-> now, testStartTime |-> 0,
                       startTime |-> now, metrics |-> <<>>], now)
     IN /\ cell' = a.cell
        /\ rafPending' = a.again
  /\ sceneLive' = sceneLive \cup {Len(results) + 1}
  /\ pc' = "frames"
  /\ UNCHANGED <<uiVars, timerVars, fnVars, handed, config, dts, timingCap, runs, now, results, calls, made, live,
                 renderer, bi, si, ri, totalTests>>

\* automatedTest.ts 71-75, 112: renderer is null, so renderer.setSize throws a
\* TypeError inside runSingleTest; nothing in run() catches it.
StartCellThrows ==
  /\ pc = "cells"
  /\ renderer.isNull
  /\ currentTest' = currentTest + 1
  /\ progress' = Append(progress, <<currentTest + 1, totalTests>>)
  /\ pc' = "rejected"
  /\ UNCHANGED <<uiVars, timerVars, fnVars, sceneLive, handed, config, dts, timingCap, runs, now, results, calls, made, live,
                 renderer, bi, si, ri, totalTests, cell, rafPending>>

\* automatedTest.ts 134-180, 186-207, 83-86: a queued frame callback runs.  When
\* it resolves the cell's promise, the continuation (summary, scene cleanup,
\* results.push, start of the inter-cell delay) runs before anything else.
Frame ==
  /\ rafPending
  /\ \E dt \in dts :
       /\ now' = now + dt
       /\ LET a == animate(cell, now + dt)
          IN /\ cell' = a.cell
             /\ rafPending' = a.again
             /\ IF a.resolved
                THEN /\ results' = Append(results, TestResult(a.cell.metrics))
                     /\ sceneLive' = sceneLive \ TraversedScenes
                     /\ pc' = "delay"
                ELSE UNCHANGED <<results, pc, sceneLive>>
  /\ UNCHANGED <<uiVars, timerVars, fnVars, handed, config, dts, timingCap, runs, calls, made, live, renderer,
                 bi, si, ri, currentTest, totalTests, progress>>

\* automatedTest.ts 86, 69-70: the delay timer fires; the resolution loop, then
\* the scene loop advance.
DelayFires ==
  /\ pc = "delay"
  /\ now' = now + InterCellDelay
  /\ IF ri < Len(config.resolutions)
     THEN /\ ri' = ri + 1 /\ si' = si /\ pc' = "cells"
     ELSE /\ ri' = 1 /\ si' = si + 1
          /\ pc' = IF si < Len(config.scenes) THEN "cells" ELSE "dispose"
  /\ UNCHANGED <<uiVars, timerVars, fnVars, sceneLive, handed, config, dts, timingCap, runs, results, calls, made, live,
                 renderer, bi, currentTest, totalTests, progress, cell, rafPending>>

\* Dispose with the renderer.dispose() call left out.
DisposeLeaks ==
  /\ pc = "dispose"
  /\ ~renderer.isNull
  /\ bi' = bi + 1
  /\ pc' = "loop"
  /\ UNCHANGED <<uiVars, timerVars, fnVars, sceneLive, handed, config, dts, timingCap, runs, now, results, calls, made, live,
                 renderer, si, ri, currentTest, totalTests, progress, cell, rafPending>>

\* automatedTest.ts 90-94: the backend's cells are done; dispose the renderer
\* and go to the next backend.
Dispose ==
  /\ pc = "dispose"
  /\ ~renderer.isNull
  /\ live' = live \ {renderer.id}
  /\ bi' = bi + 1
  /\ pc' = "loop"
  /\ UNCHANGED <<uiVars, timerVars, fnVars, sceneLive, handed, config, dts, timingCap, runs, now, results, calls, made,
                 renderer, si, ri, currentTest, totalTests, progress, cell, rafPending>>

\* automatedTest.ts 91: renderer is null (and the matrix has no cell), so
\* reading renderer.dispose throws a TypeError.
DisposeThrows ==
  /\ pc = "dispose"
  /\ renderer.isNull
  /\ pc' = "rejected"
  /\ UNCHANGED <<uiVars, timerVars, fnVars, sceneLive, handed, config, dts, timingCap, runs, now, results, calls, made, live,
                 renderer, bi, si, ri, currentTest, totalTests, progress, cell,
                 rafPending>>

\* automatedTest.ts 96-101: the backend loop is over; run() returns an object
\* whose results field is this.results itself, not a copy.
Return ==
  /\ pc = "loop"
  /\ bi > Len(config.renderers)
  /\ pc' = "returned"
  /\ handed' = handed + 1
  /\ UNCHANGED <<uiVars, timerVars, fnVars, sceneLive, config, dts, timingCap, runs, now, results, calls, made, live,
                 renderer, bi, si, ri, currentTest, totalTests, progress, cell,
                 rafPending>>

BenchNext ==
  \/ Run \/ CallFactory \/ FactoryResolves \/ FactoryResolvesNull
  \/ FactoryRejects \/ StartCell \/ StartCellThrows \/ Frame \/ DelayFires
  \/ Dispose \/ DisposeThrows \/ Return

\* ---------------------------------------------------------- WebGLGpuTimer
NoPoll == [pre |-> <<>>, prePool |-> <<>>, obs |-> <<>>, at |-> 0, ret |-> NullMs]

\* What one poll() call can read for one handle: QUERY_RESULT_AVAILABLE,
\* GPU_DISJOINT_EXT and, when it reads it, QUERY_RESULT in nanoseconds.
Observations ==
  {[avail |-> TRUE, disj |-> FALSE, raw |-> r] : r \in {RawShort, RawLong}}
    \cup {[avail |-> FALSE, disj |-> d, raw |-> 0] : d \in BOOLEAN}
    \cup {[avail |-> TRUE, disj |-> TRUE, raw |-> 0]}

\* gpuTimerGPU.ts 11-18: the constructor; the extension may be missing.
GLInit ==
  /\ glExt \in BOOLEAN
  /\ queries = <<>>
  /\ queryPool = <<>>
  /\ pendingQueries = <<>>
  /\ glNow = 0
  /\ glCreated = 0
  /\ glDeleted = <<>>
  /\ glOp = "new"
  /\ glPoll = NoPoll

Without(seq, q) == SelectSeq(seq, LAMBDA x : x # q)
WithoutKey(map, q) == SelectSeq(map, LAMBDA e : e.q # q)
Keys(map) == {map[i].q : i \in 1..Len(map)}
Range(seq) == {seq[i] : i \in 1..Len(seq)}

\* Fractions <<numerator, denominator>> stand for the JavaScript numbers.
FracAdd(a, b) ==
  IF a[2] = b[2] THEN <<a[1] + b[1], a[2]>>
  ELSE <<a[1] * b[2] + b[1] * a[2], a[2] * b[2]>>

\* Map.prototype.set: a new key goes last, an existing key keeps its place.
MapSet(map, q, t) ==
  IF q \in Keys(map)
  THEN [i \in 1..Len(map) |-> IF map[i].q = q THEN [q |-> q, t |-> t] ELSE map[i]]
  ELSE Append(map, [q |-> q, t |-> t])

\* gpuTimerGPU.ts 20-31: begin().
GLBegin ==
  /\ glOp' = "begin"
  /\ IF ~glExt
     THEN UNCHANGED <<queries, queryPool, glCreated>>
     ELSE IF queryPool # <<>>
          THEN /\ queryPool' = SubSeq(queryPool, 1, Len(queryPool) - 1)
               /\ queries' = Append(queries, queryPool[Len(queryPool)])
               /\ UNCHANGED glCreated
          ELSE /\ glCreated < MaxHandles
               /\ glCreated' = glCreated + 1
               /\ queries' = Append(queries, glCreated + 1)
               /\ UNCHANGED queryPool
  /\ UNCHANGED <<uiVars, benchVars, fnVars, gpuVars, glExt, pendingQueries, glNow, glDeleted, glPoll>>

\* gpuTimerGPU.ts 33-39: end().
GLEnd ==
  /\ glOp' = "end"
  /\ IF ~glExt \/ Len(queries) = 0
     THEN UNCHANGED pendingQueries
     ELSE pendingQueries' = MapSet(pendingQueries, queries[Len(queries)], glNow)
  /\ UNCHANGED <<uiVars, benchVars, fnVars, gpuVars, glExt, queries, queryPool, glNow, glCreated, glDeleted, glPoll>>

\* PollEntry returning a disjoint handle to the pool instead of deleting it.
PollEntryPoolsDisjoint(st, e, o) ==
  IF glNow - e.t < SettleDelayMs THEN st
  ELSE IF o.avail /\ ~o.disj
       THEN [st EXCEPT !.totalTime = FracAdd(st.totalTime, <<o.raw, NsPerMs>>),
                       !.completedQueries = st.completedQueries + 1,
                       !.pending = WithoutKey(st.pending, e.q),
                       !.pool = Append(st.pool, e.q),
                       !.queries = Without(st.queries, e.q)]
       ELSE IF o.disj
            THEN [st EXCEPT !.pending = WithoutKey(st.pending, e.q),
                            !.pool = Append(st.pool, e.q),
                            !.queries = Without(st.queries, e.q)]
            ELSE st

\* PollEntry leaving a disjoint handle in the in-flight list after deleting it.
PollEntryKeepsInFlight(st, e, o) ==
  IF glNow - e.t < SettleDelayMs THEN st
  ELSE LET done == o.avail /\ ~o.disj
           s1 == IF done
                 THEN [st EXCEPT !.totalTime = FracAdd(st.totalTime, <<o.raw, NsPerMs>>),
                                 !.completedQueries = st.completedQueries + 1,
                                 !.pending = WithoutKey(st.pending, e.q),
                                 !.pool = Append(st.pool, e.q),
                                 !.queries = Without(st.queries, e.q)]
                 ELSE st
       IN IF o.disj
          THEN [s1 EXCEPT !.deleted = Append(s1.deleted, e.q),
                          !.pending = WithoutKey(s1.pending, e.q)]
          ELSE s1

\* gpuTimerGPU.ts 48-72: the body of poll()'s loop for the pending entry e, for
\* which the context answers o.
PollEntry(st, e, o) ==
  IF glNow - e.t < SettleDelayMs THEN st
  ELSE LET done == o.avail /\ ~o.disj
           s1 == IF done
                 THEN [st EXCEPT !.totalTime = FracAdd(st.totalTime, <<o.raw, NsPerMs>>),
                                 !.completedQueries = st.completedQueries + 1,
                                 !.pending = WithoutKey(st.pending, e.q),
                                 !.pool = Append(st.pool, e.q),
                                 !.queries = Without(st.queries, e.q)]
                 ELSE st
       IN IF o.disj
          THEN [s1 EXCEPT !.deleted = Append(s1.deleted, e.q),
                          !.pending = WithoutKey(s1.pending, e.q),
                          !.queries = Without(s1.queries, e.q)]
          ELSE s1

\* Every pending handle, whatever its age.
SettledAny(map, t) == {map[i].q : i \in 1..Len(map)}

\* The pending handles that are past the settle delay at clock value t: the
\* ones whose flags a poll() at t reads.
Settled(map, t) == {map[i].q : i \in {j \in 1..Len(map) : ~(t - map[j].t < SettleDelayMs)}}

Unread == [avail |-> FALSE, disj |-> FALSE, raw |-> 0]

\* gpuTimerGPU.ts 48: the for-of loop over the entries pending at the call.
RECURSIVE PollLoop(_, _, _, _)
PollLoop(st, entries, obs, i) ==
  IF i > Len(entries) THEN st
  ELSE PollLoop(PollEntry(st, entries[i],
                          IF entries[i].q \in DOMAIN obs THEN obs[entries[i].q]
                          ELSE Unread),
                entries, obs, i + 1)

\* PollReturn yielding the total instead of the mean.
PollReturnTotal(st) ==
  IF st.completedQueries > 0 THEN st.totalTime ELSE NullMs

\* gpuTimerGPU.ts 74: the value poll() returns.
PollReturn(st) ==
  IF st.completedQueries > 0
  THEN <<st.totalTime[1], st.totalTime[2] * st.completedQueries>>
  ELSE NullMs

\* gpuTimerGPU.ts 41-75: poll().
GLPoll ==
  /\ glOp' = "poll"
  /\ IF ~glExt
     THEN /\ glPoll' = [NoPoll EXCEPT !.at = glNow]
          /\ UNCHANGED <<queries, queryPool, pendingQueries, glDeleted>>
     ELSE \E obs \in [Settled(pendingQueries, glNow) -> Observations] :
            LET st == PollLoop([pending |-> pendingQueries, pool |-> queryPool,
                                queries |-> queries, deleted |-> glDeleted,
                                totalTime |-> <<0, 1>>, completedQueries |-> 0],
                               pendingQueries, obs, 1)
            IN /\ pendingQueries' = st.pending
               /\ queryPool' = st.pool
               /\ queries' = st.queries
               /\ glDeleted' = st.deleted
               /\ glPoll' = [pre |-> pendingQueries, prePool |-> queryPool,
                             obs |-> obs, at |-> glNow, ret |-> PollReturn(st)]
  /\ UNCHANGED <<uiVars, benchVars, fnVars, gpuVars, glExt, glNow, glCreated>>

\* destroy() deleting the pooled handles only.
GLDestroyPoolOnly ==
  /\ glOp' = "destroy"
  /\ glDeleted' = glDeleted \o queryPool
  /\ queries' = <<>>
  /\ queryPool' = <<>>
  /\ pendingQueries' = <<>>
  /\ UNCHANGED <<uiVars, benchVars, fnVars, gpuVars, glExt, glNow, glCreated, glPoll>>

\* gpuTimerGPU.ts 77-85: destroy().
GLDestroy ==
  /\ glOp' = "destroy"
  /\ glDeleted' = glDeleted \o queries \o queryPool
  /\ queries' = <<>>
  /\ queryPool' = <<>>
  /\ pendingQueries' = <<>>
  /\ UNCHANGED <<uiVars, benchVars, fnVars, gpuVars, glExt, glNow, glCreated, glPoll>>

\* The clock advances between two calls of the timer's methods.
GLTick ==
  /\ glNow < MaxGLClock
  /\ glNow' = glNow + 1
  /\ UNCHANGED <<uiVars, benchVars, fnVars, gpuVars, glExt, queries, queryPool, pendingQueries, glCreated,
                 glDeleted, glOp, glPoll>>

GLNext == GLBegin \/ GLEnd \/ GLPoll \/ GLDestroy \/ GLTick

\* --------------------------------------------------------- WebGPUGpuTimer
\* gpuTimerGPU.ts 92-99 and 144-151: the constructors.  The object is of the
\* stub class (88-120) or of the Timestamp-Resolve class (137-214).
GPUInit ==
  /\ gpuClass \in {"stub", "resolve"}
  /\ gpuFeature \in BOOLEAN
  /\ querySet = 0 /\ resolveBuffer = 0 /\ resultBuffer = 0
  /\ isPolling = FALSE
  /\ gpuAlloc = 0
  /\ gpuDestroyed = <<>>
  /\ gpuMapping = {}
  /\ gpuPolls = <<>>
  /\ gpuRets = <<>>
  /\ gpuThrew = FALSE
  /\ gpuOp = "new"
  /\ gpuWindow = "none"

\* gpuTimerGPU.ts 101-105 (stub) and 153-172: begin().
GPUBegin ==
  /\ gpuOp' = "begin"
  /\ IF gpuClass = "stub" \/ ~gpuFeature \/ isPolling
     THEN UNCHANGED <<querySet, resolveBuffer, resultBuffer, gpuAlloc, gpuWindow>>
     ELSE /\ gpuAlloc < ObjectsPerWindow * MaxWindows
          /\ gpuWindow' = "begun"
          /\ querySet' = gpuAlloc + 1
          /\ resolveBuffer' = gpuAlloc + 2
          /\ resultBuffer' = gpuAlloc + 3
          /\ gpuAlloc' = gpuAlloc + ObjectsPerWindow
  /\ UNCHANGED <<uiVars, benchVars, fnVars, glVars, gpuClass, gpuFeature, isPolling, gpuDestroyed,
                 gpuMapping, gpuPolls, gpuRets, gpuThrew>>

\* gpuTimerGPU.ts 107-109 (stub) and 174-180: end().
GPUEnd ==
  /\ gpuOp' = "end"
  /\ IF gpuClass = "stub" \/ querySet = 0 \/ resolveBuffer = 0 \/ resultBuffer = 0
     THEN UNCHANGED <<isPolling, gpuWindow>>
     ELSE isPolling' = TRUE /\ gpuWindow' = "ended"
  /\ UNCHANGED <<uiVars, benchVars, fnVars, glVars, gpuClass, gpuFeature, querySet, resolveBuffer,
                 resultBuffer, gpuAlloc, gpuDestroyed, gpuMapping, gpuPolls,
                 gpuRets, gpuThrew>>

\* gpuTimerGPU.ts 111-115 (stub) and 182-187: poll() up to its await.  It yields
\* null at once, or requests the map of the current result buffer; a buffer
\* that already has a map request pending rejects the new one.
GPUPoll ==
  /\ Len(gpuRets) + Len(gpuPolls) < MaxPollCalls
  /\ gpuOp' = "poll"
  /\ IF gpuClass = "stub" \/ ~isPolling \/ resultBuffer = 0
     THEN /\ gpuRets' = Append(gpuRets, NullMs)
          /\ UNCHANGED <<gpuPolls, gpuMapping>>
     ELSE /\ gpuPolls' = Append(gpuPolls,
                 [buf |-> resultBuffer,
                  fate |-> IF resultBuffer \in gpuMapping THEN "reject" ELSE "open"])
          /\ gpuMapping' = gpuMapping \cup {resultBuffer}
          /\ UNCHANGED gpuRets
  /\ UNCHANGED <<uiVars, benchVars, fnVars, glVars, gpuClass, gpuFeature, querySet, resolveBuffer,
                 resultBuffer, isPolling, gpuAlloc, gpuDestroyed, gpuThrew, gpuWindow>>

DropPoll(i) == [j \in 1..(Len(gpuPolls) - 1) |-> IF j < i THEN gpuPolls[j] ELSE gpuPolls[j + 1]]

\* gpuTimerGPU.ts 188-207: the map of suspended poll i is fulfilled and the
\* buffer holds the timestamps start and start + raw.  The continuation reads
\* this.resultBuffer again: when that is no longer the mapped buffer,
\* getMappedRange throws and the catch block (208-212) runs.
GPUMapFulfilled ==
  \E i \in 1..Len(gpuPolls), raw \in {RawShort, RawLong} :
    /\ gpuPolls[i].fate = "open"
    /\ gpuOp' = "fulfilled"
    /\ gpuPolls' = DropPoll(i)
    /\ gpuMapping' = gpuMapping \ {gpuPolls[i].buf}
    /\ isPolling' = FALSE
    /\ IF resultBuffer = gpuPolls[i].buf
       THEN /\ gpuDestroyed' = gpuDestroyed \o
                 SelectSeq(<<querySet, resolveBuffer, resultBuffer>>, LAMBDA x : x # 0)
            /\ querySet' = 0 /\ resolveBuffer' = 0 /\ resultBuffer' = 0
            /\ gpuRets' = Append(gpuRets, <<raw, NsPerMs>>)
            /\ gpuWindow' = "none"
       ELSE /\ gpuRets' = Append(gpuRets, NullMs)
            /\ gpuWindow' = "dropped"
            /\ UNCHANGED <<gpuDestroyed, querySet, resolveBuffer, resultBuffer>>
    /\ UNCHANGED <<uiVars, benchVars, fnVars, glVars, gpuClass, gpuFeature, gpuAlloc, gpuThrew>>

\* gpuTimerGPU.ts 187, 208-212: the map of suspended poll i is rejected (the
\* device failed it, or the buffer already had a map pending).
GPUMapRejected ==
  \E i \in 1..Len(gpuPolls) :
    /\ gpuOp' = "rejected"
    /\ gpuPolls' = DropPoll(i)
    /\ gpuMapping' = IF gpuPolls[i].fate = "open" THEN gpuMapping \ {gpuPolls[i].buf}
                     ELSE gpuMapping
    /\ isPolling' = FALSE
    /\ gpuRets' = Append(gpuRets, NullMs)
    /\ gpuWindow' = "dropped"
    /\ UNCHANGED <<uiVars, benchVars, fnVars, glVars, gpuClass, gpuFeature, querySet, resolveBuffer,
                   resultBuffer, gpuAlloc, gpuDestroyed, gpuThrew>>

\* gpuTimerGPU.ts 117-119: destroy() of the stub does nothing.  The
\* Timestamp-Resolve class (137-214) defines no destroy, so the call is a call
\* of undefined and throws a TypeError.
GPUDestroy ==
  /\ gpuOp' = "destroy"
  /\ gpuThrew' = (gpuThrew \/ gpuClass = "resolve")
  /\ UNCHANGED <<uiVars, benchVars, fnVars, glVars, gpuClass, gpuFeature, querySet, resolveBuffer,
                 resultBuffer, isPolling, gpuAlloc, gpuDestroyed, gpuMapping,
                 gpuPolls, gpuRets, gpuWindow>>

GPUNext ==
  GPUBegin \/ GPUEnd \/ GPUPoll \/ GPUMapFulfilled \/ GPUMapRejected \/ GPUDestroy

\* ----------------------------------------------------------------- exportCsv
\* Text is a sequence of pieces: a decimal digit, a sign, a point, or a string
\* the source writes as a whole ('N/A', 'NaN', an api or scene name).
DigitText == <<"0", "1", "2", "3", "4", "5", "6", "7", "8", "9">>

\* String(n) of a whole number n >= 0.
RECURSIVE Digits(_)
Digits(n) ==
  IF n < 10 THEN <<DigitText[n + 1]>>
  ELSE Digits(n \div 10) \o <<DigitText[(n % 10) + 1]>>

\* Number.prototype.toFixed(2): the whole number n with n / 100 nearest to x,
\* the larger one of two, written with two digits behind the point.
ToFixed2(x) ==
  IF x = NaN THEN <<"NaN">>
  ELSE IF x = PosInfinity THEN <<"Infinity">>
  ELSE IF x = NegInfinity THEN <<"-Infinity">>
  ELSE LET a == Abs(x[1])
           n == (200 * a + x[2]) \div (2 * x[2])
           digits == Digits(n \div 100) \o <<".">> \o
                     <<DigitText[((n % 100) \div 10) + 1], DigitText[(n % 10) + 1]>>
       IN IF x[1] < 0 /\ n > 0 THEN <<"-">> \o digits ELSE digits

\* The gpu_ms cell written by string conversion of whatever the field holds.
GpuCellAsString(m) ==
  IF m.gpu_ms # NullMs THEN ToFixed2(m.gpu_ms) ELSE <<"null">>

\* exportCsv.ts 30: the gpu_ms cell.
GpuCell(m) ==
  IF m.gpu_ms # NullMs THEN ToFixed2(m.gpu_ms) ELSE <<"N/A">>

\* exportCsv.ts 10-21: the headers.
CsvHeaders ==
  <<(<<"frame">>), (<<"timestamp">>), (<<"api">>), (<<"scene">>), (<<"fps">>),
    (<<"cpu_ms">>), (<<"gpu_ms">>), (<<"vram_mb">>), (<<"draw_calls">>),
    (<<"triangles">>)>>

\* exportCsv.ts 33-34: v || 0 for a whole number v.
OrZero(v) == IF v = 0 THEN 0 ELSE v

\* exportCsv.ts 24-35: one row; join(',') converts a number cell by String().
CsvRow(m) ==
  <<Digits(m.frame), Digits(m.timestamp), (<<m.api>>), (<<m.scene>>),
    ToFixed2(m.fps), ToFixed2(Whole(m.cpu_ms)), GpuCell(m),
    Digits(m.vram_mb), Digits(OrZero(m.draw_calls)), Digits(OrZero(m.triangles))>>

\* exportCsv.ts 38-41: csvContent, as its lines; each line is the cells that
\* join(',') puts together.
CsvContent(metrics) ==
  <<CsvHeaders>> \o [i \in 1..Len(metrics) |-> CsvRow(metrics[i])]

\* ------------------------------------------------- functions of a Metric list
\* A Metric as runSingleTest records it for a frame that came deltaTime ms
\* after the one before, with the gpu_ms a timer could have supplied and the
\* counters the browser and the renderer report.
SampleMetric(i, deltaTime, gpu, info) ==
  [frame |-> SampleStride * i, timestamp |-> MsPerSecond + deltaTime * i,
   api |-> "webgl", scene |-> "storm",
   fps |-> NumDiv(Whole(MsPerSecond), Whole(deltaTime)),
   cpu_ms |-> deltaTime, gpu_ms |-> gpu,
   vram_mb |-> info.vram, draw_calls |-> info.calls, triangles |-> info.triangles]

FrameTimes == {DtFast, DtSlow, DtDisplay}

\* null, 0.625 ms and 3 ms
GpuValues == {NullMs, <<5, 8>>, <<3, 1>>}

\* automatedTest.ts 154-156, 228-233: a browser without performance.memory and
\* a renderer without info, and one with both.
RenderInfos ==
  { [vram |-> 0, calls |-> 0, triangles |-> 0],
    [vram |-> 48, calls |-> 12, triangles |-> 36] }

\* Every list of up to MaxMetrics Metrics, and the lists of LongLen Metrics
\* without GPU time in which one frame time opens the list and two others
\* alternate behind it.
MetricLists ==
  UNION {{[i \in 1..n |-> SampleMetric(i, d[i], g[i], info)] :
             d \in [1..n -> FrameTimes], g \in [1..n -> GpuValues],
             info \in RenderInfos} : n \in 0..MaxMetrics}
  \cup {[i \in 1..n |-> SampleMetric(i, d[IF i = 1 THEN 1 ELSE 2 + (i % 2)], NullMs, info)] :
             d \in [1..3 -> FrameTimes], n \in {LongLen}, info \in RenderInfos}

NoSummary ==
  [avgFps |-> Undefined, minFps |-> Undefined, maxFps |-> Undefined,
   avgCpuMs |-> Undefined, avgGpuMs |-> Undefined,
   percentile95Fps |-> Undefined, percentile99Fps |-> Undefined]

\* The renderers createGpuTimer can be given: a THREE.WebGLRenderer, a
\* WebGPURenderer, and an object with neither flag.
Renderers ==
  { [isWebGLRenderer |-> TRUE, isWebGPURenderer |-> FALSE],
    [isWebGLRenderer |-> FALSE, isWebGPURenderer |-> TRUE],
    [isWebGLRenderer |-> FALSE, isWebGPURenderer |-> FALSE] }

FacParked ==
  /\ facRenderer = [isWebGLRenderer |-> FALSE, isWebGPURenderer |-> FALSE]
  /\ facTimer = "unset"
  /\ facThrew = FALSE

MetricsParked ==
  /\ fnMetrics = <<>>
  /\ fnDone = {}
  /\ fnSummary = NoSummary
  /\ fnCsv = <<>>
  /\ fnAlerted = FALSE

FnParked == MetricsParked /\ FacParked

FnInit ==
  /\ fnMetrics \in MetricLists
  /\ fnDone = {}
  /\ fnSummary = NoSummary
  /\ fnCsv = <<>>
  /\ fnAlerted = FALSE
  /\ FacParked

\* automatedTest.ts 210-226
CalculateSummary ==
  /\ "calculateSummary" \notin fnDone
  /\ fnDone' = fnDone \cup {"calculateSummary"}
  /\ fnSummary' = calculateSummary(fnMetrics)
  /\ UNCHANGED <<uiVars, benchVars, glVars, gpuVars, facVars, fnMetrics, fnCsv, fnAlerted>>

\* exportCsv.ts 3-41: alert and return for an empty list, else build csvContent.
ExportCsv ==
  /\ "exportCsv" \notin fnDone
  /\ fnDone' = fnDone \cup {"exportCsv"}
  /\ IF Len(fnMetrics) = 0
     THEN fnAlerted' = TRUE /\ UNCHANGED fnCsv
     ELSE fnCsv' = CsvContent(fnMetrics) /\ UNCHANGED fnAlerted
  /\ UNCHANGED <<uiVars, benchVars, glVars, gpuVars, facVars, fnMetrics, fnSummary>>

FnNext == CalculateSummary \/ ExportCsv

\* ------------------------------------------------------------ createGpuTimer
\* gpuTimerGPU.ts 123-134: the class of the timer returned, or "null".
createGpuTimer(r) ==
  IF r.isWebGLRenderer THEN "WebGLGpuTimer"
  ELSE IF r.isWebGPURenderer THEN "null"
  ELSE "null"

\* gpuTimerGPU.ts 123-134: the call; for a WebGL renderer the timer is
\* constructed on the renderer's context (11-18).
CreateGpuTimer ==
  /\ facTimer = "unset"
  /\ facTimer' = createGpuTimer(facRenderer)
  /\ UNCHANGED <<uiVars, benchVars, glVars, gpuVars, fnMetrics, fnDone, fnSummary, fnCsv,
                 fnAlerted, facRenderer, facThrew>>

\* A caller's begin(), end() or poll() on the value returned: a property read
\* of null throws a TypeError.
CallOnNull ==
  /\ facTimer = "null"
  /\ facThrew' = TRUE
  /\ UNCHANGED <<uiVars, benchVars, glVars, gpuVars, fnMetrics, fnDone, fnSummary, fnCsv,
                 fnAlerted, facRenderer, facTimer>>

\* The calls on a WebGLGpuTimer that createGpuTimer returned.
CallOnGLTimer == facTimer = "WebGLGpuTimer" /\ GLNext

FacNext == CreateGpuTimer \/ CallOnNull \/ CallOnGLTimer

\* ------------------------------------------------- the interactive session
RendererTypes == {"webgl", "webgpu"}
SceneTypes == {"storm", "particles", "gbuffer"}

\* ui.ts 8-11 and main.ts 24-26, 186-196: the session after init().
UIInit ==
  /\ currentRenderer = "webgl"
  /\ currentScene = "storm"
  /\ uiMetrics = <<>>
  /\ uiFrameCount = 0
  /\ active = "webgl"
  /\ currentSceneType = "storm"
  /\ webgpuMade = FALSE
  /\ togglesPending = 0
  /\ gpuSupport \in BOOLEAN
  /\ uiRendered = <<>>
  /\ uiFrames = 0
  /\ uiChanges = 0

UIParked == UIInit /\ gpuSupport = FALSE

\* ui.ts 102-155 and main.ts 173-183: one animation frame.  Every 60th frame a
\* Metric is pushed, labelled with ui.ts's currentRenderer and currentScene,
\* while render() draws the scene with the active renderer.  Without
\* navigator.gpu, initWebGPU() returns at once and the suspended toggle
\* continues before the next frame.
UIAnimate ==
  /\ uiFrames < MaxUiFrames
  /\ togglesPending = 0 \/ gpuSupport
  /\ uiFrames' = uiFrames + 1
  /\ IF uiFrameCount % UiSampleStride = 0
     THEN /\ uiMetrics' = Append(uiMetrics, [frame |-> uiFrameCount,
                                             api |-> currentRenderer,
                                             scene |-> currentScene])
          /\ uiRendered' = Append(uiRendered, [api |-> active,
                                               scene |-> currentSceneType])
     ELSE UNCHANGED <<uiMetrics, uiRendered>>
  /\ uiFrameCount' = uiFrameCount + 1
  /\ UNCHANGED <<benchVars, glVars, gpuVars, fnVars, currentRenderer, currentScene,
                 active, currentSceneType, webgpuMade, togglesPending, gpuSupport,
                 uiChanges>>

\* ui.ts 49-54 and main.ts 122-148: a selection in the Renderer box.  The label
\* is set first; handleToggleRenderer then switches at once, or suspends on
\* initWebGPU() when no WebGPU renderer exists yet.
SelectRenderer ==
  \E value \in RendererTypes :
    /\ uiChanges < MaxUiChanges
    /\ uiChanges' = uiChanges + 1
    /\ currentRenderer' = value
    /\ IF value = "webgpu" /\ ~webgpuMade
       THEN togglesPending' = togglesPending + 1 /\ UNCHANGED active
       ELSE active' = value /\ UNCHANGED togglesPending
    /\ UNCHANGED <<benchVars, glVars, gpuVars, fnVars, currentScene, uiMetrics,
                   uiFrameCount, currentSceneType, webgpuMade, gpuSupport,
                   uiRendered, uiFrames>>

\* main.ts 66-95, 125-147: initWebGPU() settles for a suspended toggle, with a
\* renderer (possible only with navigator.gpu) or with null; on null the
\* function returns and leaves `active` alone.
ToggleSettles ==
  \E ok \in {gpuSupport, FALSE} :
    /\ togglesPending > 0
    /\ togglesPending' = togglesPending - 1
    /\ IF ok THEN webgpuMade' = TRUE /\ active' = "webgpu"
       ELSE UNCHANGED <<webgpuMade, active>>
    /\ UNCHANGED <<benchVars, glVars, gpuVars, fnVars, currentRenderer, currentScene,
                   uiMetrics, uiFrameCount, currentSceneType, gpuSupport,
                   uiRendered, uiFrames, uiChanges>>

\* ui.ts 57-64 and main.ts 150-159: a selection in the Scene box.
SelectScene ==
  \E value \in SceneTypes :
    /\ uiChanges < MaxUiChanges
    /\ uiChanges' = uiChanges + 1
    /\ currentScene' = value
    /\ currentSceneType' = value
    /\ uiMetrics' = <<>>
    /\ uiRendered' = <<>>
    /\ uiFrameCount' = 0
    /\ UNCHANGED <<benchVars, glVars, gpuVars, fnVars, currentRenderer, active,
                   webgpuMade, togglesPending, gpuSupport, uiFrames>>

UINext == UIAnimate \/ SelectRenderer \/ ToggleSettles \/ SelectScene

\* ---------------------------------------------------------- specifications
\* A component that a specification does not exercise stays as constructed.
BenchParked ==
  /\ config = WithTimes(SingleShape, 1, <<0, 1>>)
  /\ dts = {DtFast}
  /\ timingCap = FALSE
  /\ BenchFresh

GLParked ==
  /\ glExt = FALSE
  /\ queries = <<>> /\ queryPool = <<>> /\ pendingQueries = <<>>
  /\ glNow = 0 /\ glCreated = 0 /\ glDeleted = <<>>
  /\ glOp = "new" /\ glPoll = NoPoll

GPUParked ==
  /\ gpuClass = "stub" /\ gpuFeature = FALSE
  /\ querySet = 0 /\ resolveBuffer = 0 /\ resultBuffer = 0
  /\ isPolling = FALSE /\ gpuAlloc = 0 /\ gpuDestroyed = <<>>
  /\ gpuMapping = {} /\ gpuPolls = <<>> /\ gpuRets = <<>>
  /\ gpuThrew = FALSE /\ gpuOp = "new" /\ gpuWindow = "none"

Init == BenchInit /\ GLParked /\ GPUParked /\ FnParked /\ UIParked

Next == BenchNext

Spec == Init /\ [][Next]_vars

InitGL == GLInit /\ BenchParked /\ GPUParked /\ FnParked /\ UIParked

\* The steps of run() that the event loop takes by itself once they are due:
\* the continuation of a settled await (63, 75, 86), a queued frame callback
\* (179) and the delay timer (235-237).  A new run() call is the caller's choice.
Scheduled ==
  \/ CallFactory \/ FactoryResolves \/ FactoryResolvesNull \/ FactoryRejects
  \/ StartCell \/ StartCellThrows \/ Frame \/ DelayFires
  \/ Dispose \/ DisposeThrows \/ Return

\* Spec on a platform whose clock advances and whose frame callbacks, timers
\* and factory promises keep settling.
SpecLive == Init /\ [][Next]_vars /\ WF_vars(Scheduled)

SpecGL == InitGL /\ [][GLNext]_vars

InitGPU == GPUInit /\ BenchParked /\ GLParked /\ FnParked /\ UIParked

SpecGPU == InitGPU /\ [][GPUNext]_vars

InitFn == FnInit /\ BenchParked /\ GLParked /\ GPUParked /\ UIParked

\* createGpuTimer on a renderer of any kind, whose context may or may not have
\* the timer-query extension.
InitFac ==
  /\ facRenderer \in Renderers
  /\ facTimer = "unset"
  /\ facThrew = FALSE
  /\ MetricsParked /\ BenchParked /\ GLInit /\ GPUParked /\ UIParked

SpecFac == InitFac /\ [][FacNext]_vars

InitUI == UIInit /\ BenchParked /\ GLParked /\ GPUParked /\ FnParked

SpecUI == InitUI /\ [][UINext]_vars

SpecFn == InitFn /\ [][FnNext]_vars

\* ==================================================================== claims
\* The types of the backends whose rendererFactory call yielded a renderer, in
\* call order.
OkBackends ==
  LET ok == SelectSeq(calls, LAMBDA c : c.outcome = "ok")
  IN [i \in 1..Len(ok) |-> ok[i].type]

\* One (backend, scene, resolution) label per cell, backend-major, then scene,
\* then resolution.
ExpectedCells(backs) ==
  LET nS == Len(config.scenes)
      nR == Len(config.resolutions)
  IN [k \in 1..(Len(backs) * nS * nR) |->
        [renderer |-> backs[((k - 1) \div (nS * nR)) + 1],
         scene |-> config.scenes[(((k - 1) \div nR) % nS) + 1],
         resolution |-> config.resolutions[((k - 1) % nR) + 1]]]

Labels(rs) ==
  [k \in 1..Len(rs) |-> [renderer |-> rs[k].renderer, scene |-> rs[k].scene,
                         resolution |-> rs[k].resolution]]

AllMetrics ==
  UNION {{results[k].metrics[j] : j \in 1..Len(results[k].metrics)} : k \in 1..Len(results)}
  \cup {cell.metrics[j] : j \in 1..Len(cell.metrics)}

\* C1: when a first run() returns, results holds exactly one TestResult per
\* (backend whose factory call did not fail, scene, resolution), backend-major
\* in config order, and nothing for the backends whose factory call failed.
C1_PartialFailure ==
  (pc = "returned" /\ runs = 1) => Labels(results) = ExpectedCells(OkBackends)

\* C1 witness: the 2 backends x 2 scenes x 1 resolution matrix returned with
\* one backend failed and two results.
C1_Witness ==
  /\ pc = "returned" /\ runs = 1
  /\ totalTests = 4
  /\ \E i \in 1..Len(calls) : calls[i].outcome = "reject"
  /\ Len(results) = 2

\* C2: however a backend turns out unavailable at acquisition, run() does not
\* reject.
C2_RunNeverRejects == pc # "rejected"

\* C3: rendererFactory is called once per configured backend, in config order
\* (all of them by the time run() returns); no earlier renderer is live when it
\* is called; the renderer in use by a cell is the live one its backend's call
\* yielded; at most one renderer is live and a frame callback is queued only
\* while run() waits in a cell's frame loop.
C3_Sequential ==
  /\ Cardinality(live) <= 1
  /\ Len(calls) <= Len(config.renderers)
  /\ \A i \in 1..Len(calls) : calls[i].type = config.renderers[i]
  /\ pc = "returned" => Len(calls) = Len(config.renderers)
  /\ pc = "awaitFactory" => live = {}
  /\ (pc \in {"cells", "frames", "delay", "dispose"} /\ ~renderer.isNull) =>
        /\ Len(calls) = bi
        /\ renderer.id = calls[bi].id
        /\ renderer.type = config.renderers[bi]
        /\ live = {renderer.id}
  /\ rafPending => pc = "frames"

\* C3 witness: the second backend's cell is rendering on its own renderer
\* after the first backend ran on another one.
C3_Witness ==
  /\ pc = "frames" /\ bi = 2 /\ rafPending
  /\ calls[1].outcome = "ok"
  /\ renderer.id = 2 /\ live = {2}

\* C4: a Metric is appended only by a frame that started with the warmup
\* already observed as elapsed by an earlier frame, later than that frame and
\* more than warmupTime seconds after the cell's loop started; the frame that
\* runSingleTest runs itself appends none.
C4_WarmupNotSampled ==
  [][/\ (pc = "cells" /\ pc' = "frames") => cell'.metrics = <<>>
     /\ (rafPending /\ Len(cell'.metrics) > Len(cell.metrics)) =>
          /\ cell.testStartTime # 0
          /\ now' > cell.testStartTime
          /\ cell.testStartTime - cell.startTime > WarmupMs
          /\ cell'.metrics[Len(cell'.metrics)].timestamp = now']_vars

\* C4 witness: a cell with a full second of warmup has recorded a Metric.
C4_Witness ==
  /\ pc = "frames" /\ config.warmupTime = <<1, 1>>
  /\ Len(cell.metrics) > 0

\* C5: no Metric is appended by a frame whose elapsed time since the first
\* post-warmup frame exceeds duration, and the frame that resolves the cell
\* renders nothing and requests no further frame.
C5_SamplingStops ==
  [][/\ (rafPending /\ Len(cell'.metrics) > Len(cell.metrics)) =>
          now' - cell.testStartTime <= config.duration * MsPerSecond
     /\ pc' = "delay" /\ pc = "frames" =>
          ~rafPending' /\ cell'.frameCount = cell.frameCount]_vars

\* C6: on a device with working GPU timing every sampled Metric carries a
\* non-null gpu_ms (the value the timer's poll() returned).
C6_GpuMsFromTimer ==
  timingCap => \A m \in AllMetrics : m.gpu_ms # NullMs

\* C7: on a device without timing capability, whatever the class of the timer
\* and whatever calls were made, every poll() has yielded null, no call has
\* thrown and no GPU object has been created.
C7_DegradedMode ==
  ~gpuFeature =>
     /\ \A i \in 1..Len(gpuRets) : gpuRets[i] = NullMs
     /\ ~gpuThrew
     /\ gpuAlloc = 0

\* The handles the last poll() read as complete: past the settle delay,
\* available and not disjoint.
Matured ==
  {q \in Settled(glPoll.pre, glPoll.at) : glPoll.obs[q].avail /\ ~glPoll.obs[q].disj}

\* The handles the last poll() read as disjoint.
Interrupted == {q \in Settled(glPoll.pre, glPoll.at) : glPoll.obs[q].disj}

RECURSIVE SumRaw(_)
SumRaw(S) ==
  IF S = {} THEN 0
  ELSE LET q == CHOOSE x \in S : TRUE IN glPoll.obs[q].raw + SumRaw(S \ {q})

\* C8: right after a poll(), every handle it read as disjoint has been deleted
\* and is neither pending, nor in flight, nor in the pool; the pool grew by the
\* completed handles only; and the value returned counts the completed handles
\* only.
C8_DisjointDiscarded ==
  (glOp = "poll" /\ glExt) =>
     /\ \A q \in Interrupted :
          /\ q \in Range(glDeleted)
          /\ q \notin Keys(pendingQueries)
          /\ q \notin Range(queries)
          /\ q \notin Range(queryPool)
     /\ Len(queryPool) = Len(glPoll.prePool) + Cardinality(Matured)
     /\ (glPoll.ret = NullMs) <=> (Matured = {})
     /\ glPoll.ret # NullMs => glPoll.ret[2] = NsPerMs * Cardinality(Matured)

\* C8 witness: a poll() read one handle as disjoint and another as complete.
C8_Witness ==
  /\ glOp = "poll" /\ glExt
  /\ Interrupted # {}
  /\ Matured # {}

\* C9: right after a poll(), the value returned is the mean of raw / 1e6 over
\* the handles read as complete (null when there is none), each of them is in
\* the pool and no longer pending, and the pending set is the earlier one
\* without the complete and the disjoint handles, order and issue times kept.
C9_PollMean ==
  (glOp = "poll" /\ glExt) =>
     /\ IF Matured = {} THEN glPoll.ret = NullMs
        ELSE /\ glPoll.ret # NullMs
             /\ Reduced(glPoll.ret)
                  = Reduced(<<SumRaw(Matured), NsPerMs * Cardinality(Matured)>>)
     /\ \A q \in Matured : q \in Range(queryPool) /\ q \notin Keys(pendingQueries)
     /\ pendingQueries
          = SelectSeq(glPoll.pre, LAMBDA e : e.q \notin Matured \cup Interrupted)

\* C9 witness: two handles with different durations matured in one poll().
C9_Witness ==
  /\ glOp = "poll" /\ glExt
  /\ Cardinality(Matured) = 2
  /\ \E q \in Matured : glPoll.obs[q].raw = RawShort
  /\ \E q \in Matured : glPoll.obs[q].raw = RawLong

\* The GPU objects created and not destroyed.
Undestroyed == (1..gpuAlloc) \ Range(gpuDestroyed)

\* C10: a begin() issued while a window is open (begun or ended, its poll()
\* not yet settled) allocates nothing and leaves the window's query set and
\* buffers in place, and the timer never owns more than one undestroyed set
\* of them.
C10_SingleWindow ==
  [][/\ (gpuOp' = "begin" /\ gpuWindow \in {"begun", "ended"}) =>
          UNCHANGED <<gpuAlloc, querySet, resolveBuffer, resultBuffer>>
     /\ Cardinality(Undestroyed') <= ObjectsPerWindow]_vars

\* The value the latest settled poll() yielded.
LastRet(rets) == rets[Len(rets)]

\* C11: when the map of a poll() is rejected, that poll() yields null, nothing
\* is thrown, and the timer is left as after construction: not polling and
\* holding no query set, resolve buffer or result buffer; and an end() issued
\* after a dropped window, with no begin() in between, does not re-arm it.
C11_MapFailureIdle ==
  [][/\ gpuOp' = "rejected" =>
          /\ Len(gpuRets') = Len(gpuRets) + 1
          /\ LastRet(gpuRets') = NullMs
          /\ ~gpuThrew'
          /\ ~isPolling'
          /\ querySet' = 0 /\ resolveBuffer' = 0 /\ resultBuffer' = 0
     /\ (gpuWindow = "dropped" /\ gpuOp' = "end") => ~isPolling']_vars

\* C12: when the map of a poll() is fulfilled, that poll() yields raw / 1e6 for
\* one of the durations the buffer can hold, the timer's query set and buffers
\* are destroyed by this step, once each, and dropped, and the timer is not
\* polling; and a poll() called while no window is open yields null at once.
C12_SuccessfulResolve ==
  [][/\ gpuOp' = "fulfilled" =>
          /\ Len(gpuRets') = Len(gpuRets) + 1
          /\ LastRet(gpuRets') \in {<<RawShort, NsPerMs>>, <<RawLong, NsPerMs>>}
          /\ gpuDestroyed' = gpuDestroyed \o <<querySet, resolveBuffer, resultBuffer>>
          /\ Cardinality(Range(gpuDestroyed')) = Len(gpuDestroyed')
          /\ querySet' = 0 /\ resolveBuffer' = 0 /\ resultBuffer' = 0
          /\ ~isPolling'
     /\ (gpuOp' = "poll" /\ gpuWindow = "none") =>
          /\ Len(gpuRets') = Len(gpuRets) + 1
          /\ LastRet(gpuRets') = NullMs]_vars

\* C13: whenever a run() returns, the results it hands out are exactly the cells
\* that call executed, first call or not; and once a BenchmarkResults has been
\* returned, no later step changes the results list it holds.
C13_RunsIndependent ==
  [][/\ (pc' = "returned" /\ pc # "returned") =>
          Labels(results') = ExpectedCells(OkBackends')
     /\ handed > 0 => results' = results]_vars

\* C14: for every non-empty Metric list, the Summary calculateSummary returned
\* has minFps <= avgFps <= maxFps and percentile95Fps <= percentile99Fps <=
\* maxFps.
C14_SummaryOrdered ==
  ("calculateSummary" \in fnDone /\ Len(fnMetrics) > 0) =>
     /\ ~NumLess(fnSummary.avgFps, fnSummary.minFps)
     /\ ~NumLess(fnSummary.maxFps, fnSummary.avgFps)
     /\ ~NumLess(fnSummary.percentile99Fps, fnSummary.percentile95Fps)
     /\ ~NumLess(fnSummary.maxFps, fnSummary.percentile99Fps)

\* The fps values of the list passed in.
FpsOf(metrics) == [i \in 1..Len(metrics) |-> metrics[i].fps]

\* v is the element at 0-based index k of the ascending order of samples: at
\* most k samples are smaller and more than k are not greater.
IsOrderStatistic(v, k, samples) ==
  /\ \E i \in 1..Len(samples) : samples[i] = v
  /\ Cardinality({i \in 1..Len(samples) : NumLess(samples[i], v)}) <= k
  /\ Cardinality({i \in 1..Len(samples) : ~NumLess(v, samples[i])}) > k

\* k is the whole part of n * hundredths / 100.
IsFloorOfShare(k, n, hundredths) ==
  k * 100 <= n * hundredths /\ n * hundredths < (k + 1) * 100

\* C15: for a list of n >= 1 Metrics, percentile95Fps and percentile99Fps are
\* the elements at indices floor(n * 0.95) and floor(n * 0.99) of the fps values
\* in ascending order, hence sampled values; and for every n up to MaxLength
\* the two indices are those floors and lie in 0..n-1.
C15_PercentileDefinition ==
  /\ \A n \in 1..MaxLength :
       /\ IsFloorOfShare(PercentileIndex(n, 95), n, 95)
       /\ IsFloorOfShare(PercentileIndex(n, 99), n, 99)
       /\ 0 <= PercentileIndex(n, 95) /\ PercentileIndex(n, 95) <= n - 1
       /\ 0 <= PercentileIndex(n, 99) /\ PercentileIndex(n, 99) <= n - 1
  /\ ("calculateSummary" \in fnDone /\ Len(fnMetrics) >= 1) =>
       LET n == Len(fnMetrics)
       IN /\ IsOrderStatistic(fnSummary.percentile95Fps, (n * 95) \div 100, FpsOf(fnMetrics))
          /\ IsOrderStatistic(fnSummary.percentile99Fps, (n * 99) \div 100, FpsOf(fnMetrics))

\* C15 witness: a summary of LongLen Metrics whose 95th percentile is neither
\* the largest nor the smallest fps of the list.
C15_Witness ==
  /\ "calculateSummary" \in fnDone
  /\ Len(fnMetrics) = LongLen
  /\ fnSummary.percentile95Fps # fnSummary.maxFps
  /\ fnSummary.percentile95Fps # fnSummary.minFps
  /\ fnSummary.percentile99Fps = fnSummary.maxFps

\* The sum of the first n samples, not rounded.
RECURSIVE ExactSum(_, _)
ExactSum(samples, n) ==
  IF n = 0 THEN <<0, 1>>
  ELSE Reduced(FracAdd(ExactSum(samples, n - 1), samples[n]))

\* avg is the mean of the samples up to the rounding of the additions and of
\* the division: a relative error of at most 2 * n / 2^Precision.
IsMeanOf(avg, samples) ==
  LET n == Len(samples)
      sum == ExactSum(samples, n)
  IN /\ IsFinite(avg)
     /\ Abs(avg[1] * sum[2] * n - sum[1] * avg[2]) * Pow2(Precision)
          <= 2 * n * sum[1] * avg[2]

GpuSamplesOf(metrics) ==
  SelectSeq([i \in 1..Len(metrics) |-> metrics[i].gpu_ms], LAMBDA v : v # NullMs)

\* C16: for a non-empty list, avgFps and avgCpuMs are the means of fps and
\* cpu_ms over all the Metrics; avgGpuMs is null exactly when every gpu_ms is
\* null, and otherwise a number: the mean over the non-null gpu_ms only.
C16_Averages ==
  ("calculateSummary" \in fnDone /\ Len(fnMetrics) >= 1) =>
     /\ IsMeanOf(fnSummary.avgFps, FpsOf(fnMetrics))
     /\ IsMeanOf(fnSummary.avgCpuMs,
                 [i \in 1..Len(fnMetrics) |-> Whole(fnMetrics[i].cpu_ms)])
     /\ (fnSummary.avgGpuMs = NullMs) <=> (GpuSamplesOf(fnMetrics) = <<>>)
     /\ GpuSamplesOf(fnMetrics) # <<>> =>
          IsMeanOf(fnSummary.avgGpuMs, GpuSamplesOf(fnMetrics))

\* C16 witness: a summary of three Metrics, one without GPU time and two with
\* different GPU times.
C16_Witness ==
  /\ "calculateSummary" \in fnDone
  /\ Len(fnMetrics) = 3
  /\ Len(GpuSamplesOf(fnMetrics)) = 2
  /\ GpuSamplesOf(fnMetrics)[1] # GpuSamplesOf(fnMetrics)[2]
  /\ fnSummary.avgGpuMs = <<29, 16>>

\* The TestResults whose cell closed without a Metric.
EmptyResults == {k \in 1..Len(results) : results[k].metrics = <<>>}

\* C17: the frame that closes a cell with no Metric recorded still appends the
\* cell's TestResult, with an empty metrics list, and run() goes on to the
\* inter-cell delay and from there to the next cell or to the end of the
\* backend, never to a rejection; in such a TestResult no fps or cpu summary
\* field is a finite number (NaN, +/-Infinity or undefined) and avgGpuMs is
\* null.
C17_EmptyWindow ==
  [][/\ (pc = "frames" /\ pc' # "frames" /\ cell'.metrics = <<>>) =>
          /\ pc' = "delay"
          /\ Len(results') = Len(results) + 1
          /\ results'[Len(results')].metrics = <<>>
          /\ results'[Len(results')].renderer = config.renderers[bi]
          /\ results'[Len(results')].scene = config.scenes[si]
          /\ results'[Len(results')].resolution = config.resolutions[ri]
     /\ pc = "delay" => pc' \in {"delay", "cells", "dispose"}
     /\ \A k \in EmptyResults' :
          LET sm == results'[k].summary
          IN /\ ~IsFinite(sm.avgFps) /\ ~IsFinite(sm.minFps) /\ ~IsFinite(sm.maxFps)
             /\ ~IsFinite(sm.avgCpuMs)
             /\ ~IsFinite(sm.percentile95Fps) /\ ~IsFinite(sm.percentile99Fps)
             /\ sm.avgGpuMs = NullMs]_vars

\* C17 witness: the second cell of a first run is rendering after the first
\* cell closed without a Metric.
C17_Witness ==
  /\ runs = 1 /\ pc = "frames" /\ currentTest = 2
  /\ Len(results) = 1
  /\ results[1].metrics = <<>>
  /\ results[1].summary.avgFps = NaN

\* Consecutive Metrics of the list are SampleStride completed renders apart
\* (frame counts the renders completed before the append) and not earlier in
\* time.
InSamplingOrder(metrics) ==
  \A i \in 1..(Len(metrics) - 1) :
    /\ metrics[i + 1].frame = metrics[i].frame + SampleStride
    /\ metrics[i + 1].timestamp >= metrics[i].timestamp

\* C18: in every TestResult of results, which is what run() returns, and in
\* the list of the cell being measured, consecutive Metrics have frame numbers
\* exactly SampleStride apart, so renders completed between their appends, and
\* non-decreasing timestamps; every Metric's frame is a multiple of the stride.
C18_MetricOrder ==
  /\ \A k \in 1..Len(results) : InSamplingOrder(results[k].metrics)
  /\ InSamplingOrder(cell.metrics)
  /\ \A m \in AllMetrics : m.frame % SampleStride = 0 /\ m.frame > 0

\* C18 witness: run() has returned a TestResult with two Metrics.
C18_Witness ==
  /\ pc = "returned"
  /\ \E k \in 1..Len(results) :
       /\ Len(results[k].metrics) >= 2
       /\ results[k].metrics[2].frame = results[k].metrics[1].frame + SampleStride

\* C19: in a cell with duration 2 s and warmupTime 0.5 s whose frame callbacks
\* arrive at a steady interval of about 16.7 ms, between 8 and 16 Metrics are
\* recorded: every TestResult of such a run holds 8 to 16 Metrics, and the cell
\* in progress never holds more than 16.
SteadyDisplayCell ==
  /\ config.duration = 2
  /\ config.warmupTime = <<1, 2>>
  /\ dts \subseteq {DtDisplay - 1, DtDisplay}

C19_SampleCount ==
  SteadyDisplayCell =>
    /\ \A k \in 1..Len(results) : Len(results[k].metrics) \in 8..16
    /\ Len(cell.metrics) <= 16

C19_Witness ==
  /\ SteadyDisplayCell
  /\ pc = "returned"
  /\ Len(results) = 1
  /\ Len(results[1].metrics) \in 11..12
  /\ results[1].metrics[1].frame = 4 * SampleStride

\* A piece of text that is a decimal digit, and the digit it stands for.
IsDigit(piece) == \E d \in 0..9 : DigitText[d + 1] = piece

DigitValue(piece) == CHOOSE d \in 0..9 : DigitText[d + 1] = piece

\* The whole number a sequence of digits is the decimal notation of.
RECURSIVE WholeOf(_)
WholeOf(text) ==
  IF Len(text) = 0 THEN 0
  ELSE 10 * WholeOf(SubSeq(text, 1, Len(text) - 1)) + DigitValue(text[Len(text)])

\* text is digits, a point and exactly two digits, and the number it denotes
\* is within half a hundredth of the number x >= 0.
IsTwoDecimalsOf(text, x) ==
  /\ Len(text) >= 4
  /\ text[Len(text) - 2] = "."
  /\ \A i \in 1..Len(text) : i # Len(text) - 2 => IsDigit(text[i])
  /\ LET n == 100 * WholeOf(SubSeq(text, 1, Len(text) - 3))
              + WholeOf(SubSeq(text, Len(text) - 1, Len(text)))
     IN 2 * Abs(n * x[2] - 100 * x[1]) <= x[2]

\* The column of the exported text whose header is gpu_ms.
GpuColumn == CHOOSE c \in 1..Len(fnCsv[1]) : fnCsv[1][c] = <<"gpu_ms">>

\* C20: the text exportCsv builds for a non-empty Metric list has one row per
\* Metric behind the header line; the row of a Metric with gpu_ms = null has
\* N/A in the gpu_ms column, the row of a Metric with a gpu_ms has that value
\* with two decimals there, and no cell of the text holds null or NaN.
C20_CsvExport ==
  ("exportCsv" \in fnDone /\ Len(fnMetrics) > 0) =>
     /\ Len(fnCsv) = Len(fnMetrics) + 1
     /\ \A i \in 1..Len(fnMetrics) :
          /\ Len(fnCsv[i + 1]) = Len(fnCsv[1])
          /\ fnMetrics[i].gpu_ms = NullMs => fnCsv[i + 1][GpuColumn] = <<"N/A">>
          /\ fnMetrics[i].gpu_ms # NullMs =>
               IsTwoDecimalsOf(fnCsv[i + 1][GpuColumn], fnMetrics[i].gpu_ms)
     /\ \A l \in 1..Len(fnCsv) : \A c \in 1..Len(fnCsv[l]) :
          \A k \in 1..Len(fnCsv[l][c]) : fnCsv[l][c][k] \notin {"null", "NaN"}

\* C20 witness: an exported list of three Metrics in which the first has no
\* GPU time and the second has 0.625 ms, written 0.63.
C20_Witness ==
  /\ "exportCsv" \in fnDone
  /\ Len(fnMetrics) = 3
  /\ fnMetrics[1].gpu_ms = NullMs
  /\ fnCsv[2][GpuColumn] = <<"N/A">>
  /\ fnMetrics[2].gpu_ms = <<5, 8>>
  /\ fnCsv[3][GpuColumn] = <<"0", ".", "6", "3">>
  /\ fnMetrics[2].draw_calls > 0

\* C21: on a platform whose clock advances and whose callbacks keep firing, a
\* run() never executes more cells than the matrix has, every frame loop that
\* is in its warmup leaves it, every frame loop ends and goes to the inter-cell
\* delay, and every run() that was called returns.
C21_Terminates ==
  /\ [](currentTest <= totalTests)
  /\ (pc = "frames" /\ cell.testStartTime = 0) ~> (cell.testStartTime # 0)
  /\ (pc = "frames") ~> (pc = "delay")
  /\ (pc \notin {"idle", "returned", "rejected"}) ~> (pc = "returned")

\* C22: the scene that sceneFactory built for a cell has its GPU resources
\* disposed when the cell's frame loop has ended, before the next cell starts:
\* outside a frame loop no scene of a cell is alive, and inside one only the
\* scene of the cell being measured.
C22_SceneTeardown ==
  /\ pc # "frames" => sceneLive = {}
  /\ pc = "frames" => sceneLive \subseteq {Len(results) + 1}

\* C23: createGpuTimer yields a timer for every renderer: a WebGLGpuTimer for
\* a WebGL renderer, a WebGPUGpuTimer for a WebGPU renderer, a timer object
\* for any other; and no call on what it returned has thrown.
C23_TimerVariant ==
  facTimer # "unset" =>
     /\ facRenderer.isWebGLRenderer => facTimer = "WebGLGpuTimer"
     /\ (~facRenderer.isWebGLRenderer /\ facRenderer.isWebGPURenderer) =>
          facTimer = "WebGPUGpuTimer"
     /\ facTimer # "null"
     /\ ~facThrew

\* The entries that were pending when the last poll() was called and whose
\* end() was issued less than the settle delay before it.
YoungAtPoll ==
  {glPoll.pre[i] : i \in {j \in 1..Len(glPoll.pre) :
                            glPoll.at - glPoll.pre[j].t < SettleDelayMs}}

\* C24: right after a poll(), every entry that was younger than the settle
\* delay when it was called has not had its flags read, is still pending with
\* the same issue time, is still in flight, is not in the pool and has not been
\* deleted; when every pending entry was that young, the poll() returned null
\* and changed nothing.
C24_SettleDelay ==
  (glOp = "poll" /\ glExt) =>
     /\ \A e \in YoungAtPoll :
          /\ e.q \notin DOMAIN glPoll.obs
          /\ \E i \in 1..Len(pendingQueries) : pendingQueries[i] = e
          /\ e.q \in Range(queries)
          /\ e.q \notin Range(queryPool)
          /\ e.q \notin Range(glDeleted)
     /\ Cardinality(YoungAtPoll) = Len(glPoll.pre) =>
          /\ glPoll.ret = NullMs
          /\ pendingQueries = glPoll.pre
          /\ queryPool = glPoll.prePool

\* C24 witness: a poll() found one entry past the settle delay, which it read
\* as complete, and a younger one, which it left pending.
C24_Witness ==
  /\ glOp = "poll" /\ glExt
  /\ YoungAtPoll # {}
  /\ glPoll.ret # NullMs
  /\ Len(pendingQueries) = 1
  /\ Len(queryPool) = 1

\* C25: a destroy() leaves the in-flight list, the pool and the pending set
\* empty and every handle the timer ever created deleted, none of them twice;
\* and a poll() called right after a destroy() returns null.
C25_Destroy ==
  [][/\ glOp' = "destroy" =>
          /\ queries' = <<>> /\ queryPool' = <<>> /\ pendingQueries' = <<>>
          /\ Range(glDeleted') = 1..glCreated
          /\ Cardinality(Range(glDeleted')) = Len(glDeleted')
     /\ (glOp = "destroy" /\ glOp' = "poll") => glPoll'.ret = NullMs]_vars

\* C25 witness: a destroy() has deleted two handles, after a poll() that found
\* two pending, read one as complete and pooled it.
C25_Witness ==
  /\ glOp = "destroy"
  /\ Len(glDeleted) = 2
  /\ Len(glPoll.pre) = 2
  /\ Cardinality(Matured) = 1
  /\ Interrupted = {}

\* A sequence in which no element occurs twice.
NoDuplicates(seq) == Cardinality(Range(seq)) = Len(seq)

\* C26: whatever calls were made, every pending handle is in the in-flight
\* list, no handle is in both the pool and the in-flight list, no handle occurs
\* twice in the pool, in the in-flight list or among the pending entries, and a
\* deleted handle is in none of the three collections and was deleted once.
C26_HandleBookkeeping ==
  /\ Keys(pendingQueries) \subseteq Range(queries)
  /\ Range(queryPool) \cap Range(queries) = {}
  /\ NoDuplicates(queryPool)
  /\ NoDuplicates(queries)
  /\ Cardinality(Keys(pendingQueries)) = Len(pendingQueries)
  /\ Range(glDeleted) \cap (Range(queries) \cup Range(queryPool) \cup Keys(pendingQueries)) = {}
  /\ NoDuplicates(glDeleted)
  /\ Range(queries) \cup Range(queryPool) \cup Range(glDeleted) = 1..glCreated

\* C26 witness: one handle has been deleted as disjoint while another one is
\* in the pool.
C26_Witness ==
  /\ glOp = "poll"
  /\ Len(glDeleted) = 1
  /\ Len(queryPool) = 1
  /\ queries = <<>>

\* C27: an end() called while every query begun so far has already been ended
\* changes nothing: the pending entries, their order and their issue times,
\* the in-flight list and the pool stay as they were.
C27_UnmatchedEnd ==
  [][(glOp' = "end" /\ Range(queries) \subseteq Keys(pendingQueries)) =>
        UNCHANGED <<pendingQueries, queries, queryPool, glDeleted>>]_vars

\* The poll() calls that have yielded a duration.
Durations == {i \in 1..Len(gpuRets) : gpuRets[i] # NullMs}

\* C28: however poll() calls overlap, no GPU object is destroyed twice, no
\* more durations have been yielded than windows were allocated, and when the
\* map of a result buffer is fulfilled, that buffer and the query set and
\* resolve buffer allocated with it are destroyed by the poll() that settles.
C28_OverlappingPolls ==
  [][/\ NoDuplicates(gpuDestroyed')
     /\ Cardinality(Durations') * ObjectsPerWindow <= gpuAlloc'
     /\ gpuOp' = "fulfilled" =>
          \A b \in gpuMapping \ gpuMapping' :
             {b - 2, b - 1, b} \subseteq Range(gpuDestroyed')]_vars

\* C29: the fractions currentTest / totalTests reported by the current run()
\* are one per cell started, strictly increasing and never above 1; and when
\* the run() has returned after executing at least one cell, the last fraction
\* reported is 1.
C29_Progress ==
  /\ Len(progress) = currentTest
  /\ \A i \in 1..Len(progress) :
       /\ progress[i][1] <= progress[i][2]
       /\ i > 1 => progress[i - 1][1] * progress[i][2] < progress[i][1] * progress[i - 1][2]
  /\ (pc = "returned" /\ progress # <<>>) =>
        progress[Len(progress)][1] = progress[Len(progress)][2]

\* C30: every Metric of the interactive session is labelled with the backend
\* that rendered the frame it was sampled on and with the scene that was shown.
C30_MetricLabels ==
  \A i \in 1..Len(uiMetrics) :
     /\ uiMetrics[i].api = uiRendered[i].api
     /\ uiMetrics[i].scene = uiRendered[i].scene

====
